---- MODULE Spec2Model ----
(***************************************************************************)
(* Model of the student-performance pipeline: StudentPerformanceModel      *)
(* (src/src/model.py) and the Flask prediction service (src/src/app.py).   *)
(*                                                                         *)
(* Floating point arithmetic of the numeric library is replaced by integer *)
(* arithmetic of the same shape (mean, range, dot product); the random     *)
(* 80/20 partition of train_test_split is replaced by a fixed partition of *)
(* the same sizes.  Everything else follows the Python statement by        *)
(* statement, including the order in which the fields of an instance are   *)
(* assigned before a call fails.                                           *)
(***************************************************************************)
EXTENDS Integers, Sequences, FiniteSets, TLC

\* ------------------------------------------------------------------ bounds
MaxClock == 3      \* library calls per run (Spec)
MaxRequests == 3   \* requests per run of the service (SpecApp)

\* ------------------------------------------------------------------ cells
\* A DataFrame cell: a string or a number.
Str(x) == [kind |-> "str", s |-> x, n |-> 0]
Num(x) == [kind |-> "num", s |-> "", n |-> x]

\* Alphabetical order of the category strings (np.unique sorts the classes).
AlphaOrder ==
    <<"Bachelor", "Female", "Male", "Master", "Other", "PhD", "Private", "Public", "Unknown">>

Rank(s) == CHOOSE i \in 1..Len(AlphaOrder) : AlphaOrder[i] = s

CellLess(a, b) ==
    IF a.kind = "num" THEN a.n < b.n ELSE Rank(a.s) < Rank(b.s)

Range(seq) == {seq[i] : i \in 1..Len(seq)}

RECURSIVE SortCells(_)
SortCells(S) ==
    IF S = {} THEN <<>>
    ELSE LET m == CHOOSE x \in S : \A y \in S \ {x} : CellLess(x, y)
         IN <<m>> \o SortCells(S \ {m})

\* The element of a one-element set.  {e(v) : v \in {x}} evaluates x once and
\* names its value v in e.
Only(S) == CHOOSE x \in S : TRUE

IndexOf(seq, x) == CHOOSE i \in 1..Len(seq) : seq[i] = x

RECURSIVE SumSeq(_)
SumSeq(seq) == IF seq = <<>> THEN 0 ELSE Head(seq) + SumSeq(Tail(seq))

MaxOf(S) == CHOOSE x \in S : \A y \in S : y <= x
MinOf(S) == CHOOSE x \in S : \A y \in S : x <= y

\* Floor division that also covers negative numerators.
FloorDiv(a, b) == IF a >= 0 THEN a \div b ELSE -((-a + b - 1) \div b)

\* ------------------------------------------------------------------ frames
\* A DataFrame: its ordered column names and its rows (column -> cell).
Frame(cols, rows) == [columns |-> cols, rows |-> rows]

Column(data, col) == [i \in 1..Len(data.rows) |-> data.rows[i][col]]

HasColumn(data, col) == col \in Range(data.columns)

SetColumn(data, col, vals) ==
    [data EXCEPT !.rows = [i \in 1..Len(data.rows) |->
                              [data.rows[i] EXCEPT ![col] = vals[i]]]]

\* ------------------------------------------------------------ LabelEncoder
\* sklearn LabelEncoder as used by preprocess_data: an unfitted object, fitted by
\* fit_transform (classes_ = sorted unique values), read by transform.
\* present is FALSE for a column that has no entry in the label_encoders dict.
NoEncoder == [present |-> FALSE, fitted |-> FALSE, classes_ |-> <<>>]
NewLabelEncoder == [present |-> TRUE, fitted |-> FALSE, classes_ |-> <<>>]

UniformKind(vals) == \A i, j \in 1..Len(vals) : vals[i].kind = vals[j].kind

EncoderCodes(enc, vals) ==
    [i \in 1..Len(vals) |-> Num(IndexOf(enc.classes_, vals[i]) - 1)]

\* fit_transform: fails on values that cannot be sorted together, and then leaves
\* the encoder unfitted; otherwise learns the classes and returns the codes.
LabelEncoderFitTransform(vals) ==
    IF ~UniformKind(vals)
    THEN [ok |-> FALSE, err |-> "TypeError: argument must be uniformly strings or numbers",
          enc |-> NewLabelEncoder, out |-> <<>>]
    ELSE Only({[ok |-> TRUE, err |-> "", enc |-> enc, out |-> EncoderCodes(enc, vals)] :
               enc \in {[present |-> TRUE, fitted |-> TRUE,
                         classes_ |-> SortCells(Range(vals))]}})

\* Variant of LabelEncoderTransform that gives code 0 to a value outside the
\* classes instead of failing.
LabelEncoderTransformLenient(enc, vals) ==
    IF ~enc.fitted
    THEN [ok |-> FALSE, err |-> "NotFittedError: LabelEncoder", out |-> <<>>]
    ELSE [ok |-> TRUE, err |-> "",
          out |-> [i \in 1..Len(vals) |->
                      IF vals[i] \in Range(enc.classes_)
                      THEN Num(IndexOf(enc.classes_, vals[i]) - 1) ELSE Num(0)]]

\* transform: never changes the encoder; fails when it is not fitted or when a
\* value is not among its classes.
LabelEncoderTransform(enc, vals) ==
    IF ~enc.fitted
    THEN [ok |-> FALSE, err |-> "NotFittedError: LabelEncoder", out |-> <<>>]
    ELSE IF \E i \in 1..Len(vals) : vals[i] \notin Range(enc.classes_)
    THEN [ok |-> FALSE, err |-> "y contains previously unseen labels", out |-> <<>>]
    ELSE [ok |-> TRUE, err |-> "", out |-> EncoderCodes(enc, vals)]

\* ---------------------------------------------------------- StandardScaler
NewStandardScaler == [fitted |-> FALSE, mean_ |-> <<>>, scale_ |-> <<>>]

\* X is a matrix: a sequence of rows, each a sequence of integers.
MatColumn(X, j) == [i \in 1..Len(X) |-> X[i][j]]

ScalerFit(X) ==
    LET n == Len(X[1])
        mean(j) == FloorDiv(SumSeq(MatColumn(X, j)), Len(X))
        spread(j) == MaxOf(Range(MatColumn(X, j))) - MinOf(Range(MatColumn(X, j)))
    IN [fitted |-> TRUE,
        mean_  |-> [j \in 1..n |-> mean(j)],
        scale_ |-> [j \in 1..n |-> IF spread(j) = 0 THEN 1 ELSE spread(j)]]

ScalerApply(sc, X) ==
    [i \in 1..Len(X) |->
        [j \in 1..Len(X[i]) |-> FloorDiv(X[i][j] - sc.mean_[j], sc.scale_[j])]]

ScalerTransform(sc, X) ==
    IF ~sc.fitted
    THEN [ok |-> FALSE, err |-> "NotFittedError: StandardScaler", out |-> <<>>]
    ELSE IF \E i \in 1..Len(X) : Len(X[i]) # Len(sc.mean_)
    THEN [ok |-> FALSE, err |-> "ValueError: X has a different number of features", out |-> <<>>]
    ELSE [ok |-> TRUE, err |-> "", out |-> ScalerApply(sc, X)]

\* --------------------------------------------------------------- estimators
\* self.model: None, or a LinearRegression / RandomForestRegressor object.
\* names are the feature names seen at fit (a DataFrame was passed) or <<>>
\* (an array was passed).
NoneModel ==
    [kind |-> "None", fitted |-> FALSE, names |-> <<>>, n_features |-> 0,
     coef_ |-> <<>>, intercept_ |-> 0]

NewEstimator(model_type) ==
    [NoneModel EXCEPT !.kind = IF model_type = "linear" THEN "LinearRegression"
                               ELSE "RandomForestRegressor"]

\* fit: the coefficients are the co-moments of each feature with the target, the
\* intercept the mean target.
EstimatorFit(est, X, names, y) ==
    LET n == Len(X[1])
        ybar == FloorDiv(SumSeq(y), Len(y))
        xbar(j) == FloorDiv(SumSeq(MatColumn(X, j)), Len(X))
    IN [est EXCEPT !.fitted = TRUE, !.names = names, !.n_features = n,
                   !.coef_ = [j \in 1..n |->
                                 SumSeq([i \in 1..Len(X) |-> (X[i][j] - xbar(j)) * (y[i] - ybar)])],
                   !.intercept_ = ybar]

EstimatorApply(est, X) ==
    [i \in 1..Len(X) |->
        est.intercept_ + SumSeq([j \in 1..Len(X[i]) |-> est.coef_[j] * X[i][j]])]

\* names = <<>> when an array (the scaler's output) is passed.
EstimatorPredict(est, X, names) ==
    IF ~est.fitted
    THEN [ok |-> FALSE, err |-> "NotFittedError: estimator", out |-> <<>>]
    ELSE IF \E i \in 1..Len(X) : Len(X[i]) # est.n_features
    THEN [ok |-> FALSE, err |-> "ValueError: X has a different number of features", out |-> <<>>]
    ELSE IF est.names # <<>> /\ names # <<>> /\ est.names # names
    THEN [ok |-> FALSE, err |-> "ValueError: feature names should match those passed during fit",
          out |-> <<>>]
    ELSE [ok |-> TRUE, err |-> "", out |-> EstimatorApply(est, X)]

\* ------------------------------------------------- StudentPerformanceModel
NoneColumns == [isNone |-> TRUE, cols |-> <<>>]
SomeColumns(cols) == [isNone |-> FALSE, cols |-> cols]

EmptyMetrics ==
    [model_type |-> "", train_size |-> 0, test_size |-> 0, mse |-> 0, mae |-> 0,
     training_date |-> 0, feature_importance |-> FALSE]

categorical_columns == <<"gender", "parental_education", "school_type">>

\* __init__
NewStudentPerformanceModel ==
    [model           |-> NoneModel,
     scaler          |-> NewStandardScaler,
     label_encoders  |-> [c \in Range(categorical_columns) |-> NoEncoder],
     feature_columns |-> NoneColumns,
     target_column   |-> "final_score",
     model_metrics   |-> EmptyMetrics]

\* "col in self.label_encoders"
HasEncoder(self, col) == self.label_encoders[col].present

\* Variant of PreprocessColumn that fits the encoder on every call, whether or
\* not the column already has one.
PreprocessColumnRefit(self, data, col) ==
    IF ~HasColumn(data, col)
    THEN [ok |-> TRUE, err |-> "", self |-> self, data |-> data]
    ELSE Only({[ok |-> r.ok, err |-> r.err,
                self |-> [self EXCEPT !.label_encoders[col] = r.enc],
                data |-> IF r.ok THEN SetColumn(data, col, r.out) ELSE data] :
               r \in {LabelEncoderFitTransform(Column(data, col))}})

\* One pass of the loop body of preprocess_data for column col.
PreprocessColumn(self, data, col) ==
    IF ~HasColumn(data, col)
    THEN [ok |-> TRUE, err |-> "", self |-> self, data |-> data]
    ELSE IF ~HasEncoder(self, col)
    THEN Only({[ok |-> r.ok, err |-> r.err,
                self |-> [self EXCEPT !.label_encoders[col] = r.enc],
                data |-> IF r.ok THEN SetColumn(data, col, r.out) ELSE data] :
               r \in {LabelEncoderFitTransform(Column(data, col))}})
    ELSE Only({[ok |-> r.ok, err |-> r.err, self |-> self,
                data |-> IF r.ok THEN SetColumn(data, col, r.out) ELSE data] :
               r \in {LabelEncoderTransform(self.label_encoders[col], Column(data, col))}})

\* The loop of preprocess_data from the k-th categorical column on; an
\* exception leaves the loop with what was assigned so far.
RECURSIVE PreprocessFrom(_, _, _)
PreprocessFrom(self, data, k) ==
    IF k > Len(categorical_columns)
    THEN [ok |-> TRUE, err |-> "", self |-> self, data |-> data]
    ELSE Only({IF r.ok THEN PreprocessFrom(r.self, r.data, k + 1) ELSE r :
               r \in {PreprocessColumn(self, data, categorical_columns[k])}})

preprocess_data(self, data) == PreprocessFrom(self, data, 1)

\* prepare_features: X as the sub-frame of the feature columns (columns kept),
\* y as the target values; hasY is FALSE when y is None.
prepare_features(self, data) ==
    LET exclude_columns == {"student_id", self.target_column}
        s1 == IF self.feature_columns.isNone
              THEN [self EXCEPT !.feature_columns =
                       SomeColumns(SelectSeq(data.columns,
                                             LAMBDA c : c \notin exclude_columns))]
              ELSE self
    IN Only({IF \E j \in 1..Len(cols) : ~HasColumn(data, cols[j])
             THEN [ok |-> FALSE, err |-> "KeyError: columns not in index", self |-> s1,
                   X |-> <<>>, hasY |-> FALSE, y |-> <<>>]
             ELSE [ok |-> TRUE, err |-> "", self |-> s1,
                   X |-> [i \in 1..Len(data.rows) |->
                             [j \in 1..Len(cols) |-> data.rows[i][cols[j]]]],
                   hasY |-> HasColumn(data, self.target_column),
                   y |-> IF HasColumn(data, self.target_column)
                         THEN [i \in 1..Len(data.rows) |-> data.rows[i][self.target_column].n]
                         ELSE <<>>] :
             cols \in {s1.feature_columns.cols}})

\* Conversion of a feature frame to the numeric array the library works on.
IsNumeric(X) == \A i \in 1..Len(X) : \A j \in 1..Len(X[i]) : X[i][j].kind = "num"
AsArray(X) == [i \in 1..Len(X) |-> [j \in 1..Len(X[i]) |-> X[i][j].n]]

\* train_test_split(test_size=0.2): the sizes of the two parts.
TrainSize(n) == (4 * n) \div 5
TestSize(n) == n - TrainSize(n)

Failed(self, err) == [ok |-> FALSE, err |-> err, self |-> self]

Abs(v) == IF v < 0 THEN -v ELSE v

\* The metrics train stores; rmse and r2_score are further functions of the
\* same residuals.
Metrics(model_type, y_test, y_pred, train_size, now) ==
    Only({[model_type    |-> model_type,
           train_size    |-> train_size,
           test_size     |-> Len(y_test),
           mse           |-> FloorDiv(SumSeq([i \in 1..Len(resid) |-> resid[i] * resid[i]]),
                                      Len(resid)),
           mae           |-> FloorDiv(SumSeq([i \in 1..Len(resid) |-> Abs(resid[i])]),
                                      Len(resid)),
           training_date |-> now,
           feature_importance |-> (model_type = "random_forest")] :
          resid \in {[i \in 1..Len(y_test) |-> y_test[i] - y_pred[i]]}})

\* The estimator train creates and fits: on the scaled training rows for
\* 'linear', on the raw training rows (a DataFrame, with its column names)
\* otherwise.
\* Variant of FitEstimator that fits every estimator on the unscaled features.
FitEstimatorRaw(model_type, scaler, names, A_train, y_train) ==
    EstimatorFit(NewEstimator(model_type), A_train, names, y_train)

FitEstimator(model_type, scaler, names, A_train, y_train) ==
    IF model_type = "linear"
    THEN Only({EstimatorFit(NewEstimator(model_type), scaled, <<>>, y_train) :
               scaled \in {ScalerApply(scaler, A_train)}})
    ELSE EstimatorFit(NewEstimator(model_type), A_train, names, y_train)

\* The predictions train evaluates the estimator with.
EvaluateEstimator(model_type, scaler, est, A_test) ==
    IF model_type = "linear"
    THEN Only({EstimatorApply(est, scaled) : scaled \in {ScalerApply(scaler, A_test)}})
    ELSE EstimatorApply(est, A_test)

\* The part of train after the split: scaler, estimator, metrics.
\* hasY = FALSE (no target column) makes the estimator's fit raise.
TrainSplit(self, A_train, A_test, hasY, y_train, y_test, model_type, now) ==
    Only({
        IF ~hasY
        THEN Failed([self EXCEPT !.scaler = sc, !.model = NewEstimator(model_type)],
                    "ValueError: y cannot be None")
        ELSE Only({
            [ok |-> TRUE, err |-> "",
             self |-> [self EXCEPT
                 !.scaler = sc,
                 !.model = est,
                 !.model_metrics =
                     Metrics(model_type, y_test,
                             EvaluateEstimator(model_type, sc, est, A_test),
                             Len(A_train), now)]] :
            est \in {FitEstimator(model_type, sc, self.feature_columns.cols, A_train, y_train)}}) :
        sc \in {ScalerFit(A_train)}})

\* The part of train from train_test_split on, for the features X and target y.
TrainFit(self, X, hasY, y, model_type, now) ==
    IF ~IsNumeric(X)
    THEN Failed(self, "ValueError: could not convert string to float")
    ELSE Only({TrainSplit(self, SubSeq(A, 1, k), SubSeq(A, k + 1, Len(A)), hasY,
                          SubSeq(y, 1, k), SubSeq(y, k + 1, Len(A)), model_type, now) :
               A \in {AsArray(X)}, k \in {TrainSize(Len(X))}})

\* train(data, model_type): the set of outcomes.  Without a target column the
\* call fails either in train_test_split or in the estimator's fit, depending on
\* the library version: both are kept.
train(self, data, model_type, now) ==
    Only({
        IF ~p.ok THEN {Failed(p.self, p.err)}
        ELSE Only({
            IF ~f.ok THEN {Failed(f.self, f.err)}
            ELSE IF TrainSize(Len(f.X)) = 0
            THEN {Failed(f.self, "ValueError: the resulting train set will be empty")}
            ELSE IF ~f.hasY
            THEN {Failed(f.self, "TypeError: train_test_split"),
                  TrainFit(f.self, f.X, f.hasY, f.y, model_type, now)}
            ELSE {TrainFit(f.self, f.X, f.hasY, f.y, model_type, now)} :
            f \in {prepare_features(p.self, p.data)}}) :
        p \in {preprocess_data(self, data)}})

PredictFailed(self, err) == [ok |-> FALSE, err |-> err, self |-> self, out |-> <<>>]

\* The end of predict: the estimator's predict on what predict passes to it.
PredictWith(self, X, names) ==
    Only({[ok |-> r.ok, err |-> r.err, self |-> self, out |-> r.out] :
          r \in {EstimatorPredict(self.model, X, names)}})

\* Variant of PredictArray that calls fit_transform on the scaler.
PredictArrayRefit(self, A) ==
    IF self.model.kind = "LinearRegression"
    THEN Only({PredictWith([self EXCEPT !.scaler = sc], ScalerApply(sc, A), <<>>) :
               sc \in {ScalerFit(A)}})
    ELSE PredictWith(self, A, self.feature_columns.cols)

\* predict from "if isinstance(self.model, LinearRegression)" on, A being the
\* feature rows.
PredictArray(self, A) ==
    IF self.model.kind = "LinearRegression"
    THEN Only({IF ~sc.ok THEN PredictFailed(self, sc.err)
               ELSE PredictWith(self, sc.out, <<>>) :
               sc \in {ScalerTransform(self.scaler, A)}})
    ELSE PredictWith(self, A, self.feature_columns.cols)

\* predict from "X, _ = self.prepare_features(processed_data)" on.
PredictPrepared(self, processed_data) ==
    Only({
        IF ~f.ok THEN PredictFailed(f.self, f.err)
        ELSE IF ~IsNumeric(f.X)
        THEN PredictFailed(f.self, "ValueError: could not convert string to float")
        ELSE Only({PredictArray(f.self, A) : A \in {AsArray(f.X)}}) :
        f \in {prepare_features(self, processed_data)}})

\* predict(data)
predict(self, data) ==
    IF self.model.kind = "None"
    THEN PredictFailed(self, "Model not trained yet. Call train() first.")
    ELSE Only({
        IF ~p.ok THEN PredictFailed(p.self, p.err)
        ELSE PredictPrepared(p.self, p.data) :
        p \in {preprocess_data(self, data)}})

\* ------------------------------------------------------------- persistence
\* The four artifacts of a model directory.  A file is "ok", "absent" or
\* "corrupt" (present, but joblib.load raises on it).
\* model_file is student_performance_model.joblib, scaler_file scaler.joblib,
\* encoders_file label_encoders.joblib, metadata_file model_metadata.joblib.
ArtifactFiles == {"model_file", "scaler_file", "encoders_file", "metadata_file"}

NoFile(content) == [status |-> "absent", content |-> content]
OkFile(content) == [status |-> "ok", content |-> content]

Metadata(self) ==
    [feature_columns |-> self.feature_columns,
     target_column   |-> self.target_column,
     metrics         |-> self.model_metrics]

EmptyDir ==
    [model_file    |-> NoFile(NoneModel),
     scaler_file   |-> NoFile(NewStandardScaler),
     encoders_file |-> NoFile(NewStudentPerformanceModel.label_encoders),
     metadata_file |-> NoFile(Metadata(NewStudentPerformanceModel))]

\* join(dirname(dirname(__file__)), 'models')
ProjectModelsDir == "<project>/models"

AbsoluteDirs == {"/tmp/models", ProjectModelsDir}

\* "if not os.path.isabs(model_dir): model_dir = <project>/models"
ResolveDir(model_dir) ==
    IF model_dir \in AbsoluteDirs THEN model_dir ELSE ProjectModelsDir

\* save_model(model_dir) on the file system files (directory -> directory record).
save_model(self, files, model_dir) ==
    IF self.model.kind = "None"
    THEN [ok |-> FALSE, err |-> "No model to save. Train the model first.", files |-> files]
    ELSE LET d == ResolveDir(model_dir)
         IN [ok |-> TRUE, err |-> "",
             files |-> [files EXCEPT ![d] =
                 [model_file    |-> OkFile(self.model),
                  scaler_file   |-> OkFile(self.scaler),
                  encoders_file |-> OkFile(self.label_encoders),
                  metadata_file |-> OkFile(Metadata(self))]]]

JoblibError(file) ==
    IF file.status = "absent" THEN "FileNotFoundError" ELSE "UnpicklingError"

\* Variant of load_model that does not restore the label encoders.
LoadModelKeepsEncoders(self, files, model_dir) ==
    Only({IF \E f \in ArtifactFiles : dir[f].status # "ok"
          THEN Failed(self, "FileNotFoundError")
          ELSE [ok |-> TRUE, err |-> "",
                self |-> [self EXCEPT
                    !.model = dir.model_file.content,
                    !.scaler = dir.scaler_file.content,
                    !.feature_columns = dir.metadata_file.content.feature_columns,
                    !.target_column   = dir.metadata_file.content.target_column,
                    !.model_metrics   = dir.metadata_file.content.metrics]] :
          dir \in {files[ResolveDir(model_dir)]}})

\* Variant of load_model that goes on without the metadata file.
LoadModelWithoutMetadata(self, files, model_dir) ==
    Only({IF \E f \in ArtifactFiles \ {"metadata_file"} : dir[f].status # "ok"
          THEN Failed(self, "FileNotFoundError")
          ELSE [ok |-> TRUE, err |-> "",
                self |-> [self EXCEPT
                    !.model = dir.model_file.content,
                    !.scaler = dir.scaler_file.content,
                    !.label_encoders = dir.encoders_file.content]] :
          dir \in {files[ResolveDir(model_dir)]}})

\* load_model(model_dir): the fields are assigned one after the other, each right
\* after its file is read; the first file that cannot be read ends the call.
load_model(self, files, model_dir) ==
    LET dir == files[ResolveDir(model_dir)]
        s1  == [self EXCEPT !.model = dir.model_file.content]
        s2  == [s1 EXCEPT !.scaler = dir.scaler_file.content]
        s3  == [s2 EXCEPT !.label_encoders = dir.encoders_file.content]
        s4  == [s3 EXCEPT !.feature_columns = dir.metadata_file.content.feature_columns,
                          !.target_column   = dir.metadata_file.content.target_column,
                          !.model_metrics   = dir.metadata_file.content.metrics]
    IN IF dir.model_file.status # "ok" THEN Failed(self, JoblibError(dir.model_file))
       ELSE IF dir.scaler_file.status # "ok" THEN Failed(s1, JoblibError(dir.scaler_file))
       ELSE IF dir.encoders_file.status # "ok" THEN Failed(s2, JoblibError(dir.encoders_file))
       ELSE IF dir.metadata_file.status # "ok" THEN Failed(s3, JoblibError(dir.metadata_file))
       ELSE [ok |-> TRUE, err |-> "", self |-> s4]

\* ------------------------------------------------------------------ inputs
\* The data the calls are explored with.  "age" stands for the numeric
\* feature columns of a student record.
AllColumns == <<"student_id", "age", "gender", "parental_education", "school_type", "final_score">>

Student(id, age, gender, education, school, score) ==
    [student_id |-> Str(id), age |-> Num(age), gender |-> Str(gender),
     parental_education |-> Str(education), school_type |-> Str(school),
     final_score |-> Num(score)]

\* The frame with only the columns keep (a sub-sequence of AllColumns).
Project(rows, keep) ==
    Frame(SelectSeq(AllColumns, LAMBDA c : c \in keep),
          [i \in 1..Len(rows) |-> [c \in keep |-> rows[i][c]]])

RowsA ==
    <<Student("STU0001", 16, "Male", "Bachelor", "Public", 60),
      Student("STU0002", 18, "Female", "Master", "Private", 80),
      Student("STU0003", 17, "Male", "Bachelor", "Public", 100)>>

RowsB ==
    <<Student("STU0001", 20, "Female", "Master", "Public", 40),
      Student("STU0002", 24, "Male", "Bachelor", "Private", 90),
      Student("STU0003", 19, "Female", "Bachelor", "Public", 0)>>

RowsUnknown ==
    <<Student("STU0001", 17, "Male", "Bachelor", "Public", 0),
      Student("STU0002", 18, "Unknown", "Master", "Private", 0)>>

Everything == Range(AllColumns)
Features == Everything \ {"student_id", "final_score"}

FrameNames ==
    {"students_a", "students_b", "no_school", "no_target", "one", "unknown_gender", "mixed"}

FrameOf(name) ==
    CASE name = "students_a"     -> Project(RowsA, Everything)
      [] name = "students_b"     -> Project(RowsB, Everything)
      [] name = "no_school"      -> Project(RowsA, Everything \ {"school_type"})
      [] name = "no_target"      -> Project(RowsB, Features)
      [] name = "one"            -> Project(SubSeq(RowsA, 2, 2), Features)
      [] name = "unknown_gender" -> Project(SubSeq(RowsUnknown, 2, 2), Features)
      [] name = "mixed"          -> Project(RowsUnknown, Features)

TrainInputs == {"students_a", "students_b", "no_school", "no_target"}
PredictInputs == {"no_target", "one", "unknown_gender"}
PreprocessInputs == {"one", "unknown_gender", "encoded"}
ModelTypes == {"linear", "random_forest", "xgboost"}
DirArguments == {"/tmp/models", "backup"}

\* ------------------------------------------------------------------- state
VARIABLES
    objs,    \* the StudentPerformanceModel instances of a library run
    disk,    \* directory -> the four artifact files
    clock,   \* datetime.now(), one tick per call or request
    call,    \* the most recent library call and its outcome
    succeeded, \* per instance: how many train / load_model calls returned normally
    model,   \* app.py: the global model (None or an instance)
    pc,      \* app.py: where the process is
    loaded,  \* app.py: what load_or_train_model returned
    resp,    \* app.py: the most recent request and its response
    gen,     \* data_generator.py: numpy's global random state, the generators,
             \* the most recent generator call and the datasets returned so far
    reqs     \* app.py: the prediction requests in flight, one per server thread

vars == <<objs, disk, clock, call, succeeded, model, pc, loaded, resp, gen, reqs>>

\* M is the instance that is trained and saved, F the fresh instance a saved
\* model is restored into (tests/test_all.py, test_save_and_load_model).
Instances == {"M", "F"}
Trained == {"M"}
Restored == {"F"}

NoCall ==
    [op |-> "", self |-> "", data |-> "", model_type |-> "", dir |-> "",
     ok |-> TRUE, err |-> "", out |-> <<>>, frame |-> Frame(<<>>, <<>>)]

NoneSucceeded == [i \in Instances |-> [train |-> 0, load_model |-> 0]]

NoResponse ==
    [endpoint |-> "", body |-> "", status |-> 0, error |-> "", model_loaded |-> FALSE,
     predictions |-> <<>>, indexes |-> <<>>, input_data |-> <<>>, count |-> 0,
     timestamp |-> 0, invoked |-> FALSE, info |-> Metadata(NewStudentPerformanceModel)]

\* What model.py's main() leaves in <project>/models: a random forest trained on
\* the generated dataset and saved.
TrainedOn(d, t) ==
    UNION {{r.self : r \in {o \in train(NewStudentPerformanceModel, frame, t, 0) : o.ok}} :
           frame \in {FrameOf(d)}}

MainModel == Only(TrainedOn("students_a", "random_forest"))

SavedDir(self) == save_model(self, [d \in AbsoluteDirs |-> EmptyDir], ProjectModelsDir).files[ProjectModelsDir]

\* A directory after the files in gone were deleted and the file bad (if any)
\* was overwritten with garbage.
Damaged(dir, gone, bad) ==
    [f \in ArtifactFiles |->
        IF f \in gone THEN EmptyDir[f]
        ELSE IF f \in bad THEN [status |-> "corrupt", content |-> EmptyDir[f].content]
        ELSE dir[f]]

ProjectDirStates ==
    UNION {{Damaged(dir, gone, {}) : gone \in SUBSET ArtifactFiles}
           \cup {Damaged(dir, {}, {f}) : f \in ArtifactFiles} : dir \in {SavedDir(MainModel)}}

\* The library runs start from the directory as saved, empty, or with one
\* file deleted.
LibraryDirStates ==
    {d \in ProjectDirStates :
        Cardinality({f \in ArtifactFiles : d[f].status = "ok"}) \in {0, 3, 4}
        /\ \A f \in ArtifactFiles : d[f].status # "corrupt"}

\* The StudentDataGenerator instances of a run (tests/test_all.py,
\* test_data_consistency: gen1 and gen2).
Generators == {"gen1", "gen2"}

\* generations counts the generate_dataset calls of the instance that returned.
NoGenerator == [constructed |-> FALSE, num_students |-> 0, random_seed |-> 0, generations |-> 0]

NoDataset == [columns |-> <<>>, rows |-> <<>>]

NoGenCall ==
    [op |-> "", self |-> "", ok |-> TRUE, err |-> "", data |-> NoDataset, score |-> <<>>,
     base |-> <<>>, sampled |-> <<>>]

\* np.random.seed(s): the global random state, s and the number of values drawn
\* since.
Seeded(s) == [seed |-> s, pos |-> 0]

GenIdle ==
    [rng |-> Seeded(0), objs |-> [g \in Generators |-> NoGenerator], call |-> NoGenCall,
     seen |-> {}]

\* The threads of the server that handle prediction requests, and what a
\* thread holds of its request: where it is in the handler, the endpoint and
\* the body, processed_data, the index of the categorical column the loop of
\* preprocess_data is at, and the response when it has returned.
Threads == {"t1", "t2"}

NoRequest ==
    [pc |-> "idle", endpoint |-> "", body |-> "", data |-> Frame(<<>>, <<>>), col |-> 1,
     resp |-> NoResponse]

NoRequests == [t \in Threads |-> NoRequest]

AppIdle ==
    /\ model = [isNone |-> TRUE, obj |-> NewStudentPerformanceModel]
    /\ pc = "not_started"
    /\ loaded = "not_called"
    /\ resp = NoResponse
    /\ reqs = NoRequests

Init ==
    /\ objs = [i \in Instances |-> NewStudentPerformanceModel]
    /\ \E dir \in LibraryDirStates :
          disk = [d \in AbsoluteDirs |-> IF d = ProjectModelsDir THEN dir ELSE EmptyDir]
    /\ clock = 0
    /\ call = NoCall
    /\ succeeded = NoneSucceeded
    /\ AppIdle
    /\ gen = GenIdle

Called(op, i, d, t, dir, r, out) ==
    /\ call' = [op |-> op, self |-> i, data |-> d, model_type |-> t, dir |-> dir,
                ok |-> r.ok, err |-> r.err, out |-> out,
                frame |-> IF op = "preprocess_data" /\ r.ok THEN r.data ELSE Frame(<<>>, <<>>)]
    /\ succeeded' = IF r.ok /\ op \in {"train", "load_model"}
                    THEN [succeeded EXCEPT ![i][op] = @ + 1]
                    ELSE succeeded
    /\ clock' = clock + 1
    /\ UNCHANGED <<model, pc, loaded, resp, gen, reqs>>

Train(i, d, t) ==
    /\ clock < MaxClock
    /\ \E frame \in {FrameOf(d)} : \E r \in train(objs[i], frame, t, clock) :
          /\ objs' = [objs EXCEPT ![i] = r.self]
          /\ Called("train", i, d, t, "", r, <<>>)
    /\ UNCHANGED disk

Predict(i, d) ==
    /\ clock < MaxClock
    /\ \E frame \in {FrameOf(d)} : \E r \in {predict(objs[i], frame)} :
          /\ objs' = [objs EXCEPT ![i] = r.self]
          /\ Called("predict", i, d, "", "", r, r.out)
    /\ UNCHANGED disk

\* The data frame a caller passes: a frame of raw records, or ("encoded") the
\* frame that the previous preprocess_data call returned.
Returned(previous, i) ==
    previous.op = "preprocess_data" /\ previous.ok /\ previous.self = i

InputOf(d, previous) == IF d = "encoded" THEN previous.frame ELSE FrameOf(d)

PreprocessData(i, d) ==
    /\ clock < MaxClock
    /\ d = "encoded" => Returned(call, i)
    /\ \E frame \in {InputOf(d, call)} : \E r \in {preprocess_data(objs[i], frame)} :
          /\ objs' = [objs EXCEPT ![i] = r.self]
          /\ Called("preprocess_data", i, d, "", "", r, <<>>)
    /\ UNCHANGED disk

SaveModel(i, dir) ==
    /\ clock < MaxClock
    /\ \E r \in {save_model(objs[i], disk, dir)} :
          /\ disk' = r.files
          /\ Called("save_model", i, "", "", dir, r, <<>>)
    /\ UNCHANGED objs

LoadModel(i, dir) ==
    /\ clock < MaxClock
    /\ \E r \in {load_model(objs[i], disk, dir)} :
          /\ objs' = [objs EXCEPT ![i] = r.self]
          /\ Called("load_model", i, "", "", dir, r, <<>>)
    /\ UNCHANGED disk

Next ==
    \/ \E i \in Trained, d \in TrainInputs, t \in ModelTypes : Train(i, d, t)
    \/ \E i \in Instances, d \in PredictInputs : Predict(i, d)
    \/ \E i \in Trained, d \in PreprocessInputs : PreprocessData(i, d)
    \/ \E i \in Trained, dir \in DirArguments : SaveModel(i, dir)
    \/ \E i \in Restored, dir \in DirArguments : LoadModel(i, dir)

Spec == Init /\ [][Next]_vars

\* ------------------------------------------------------- data generator
\* Real numbers are kept in thousandths (16.5 is 16500), scores before the
\* normalization in units of 0.00001 and final scores in hundredths.
MaxStudents == 3
MaxGenCalls == 4

Seeds == {42, 123}
EntropySeeds == {0, 7}

\* Variant of Clip that does not clip.
NoClip(x, lo, hi) == x

Clip(x, lo, hi) == IF x < lo THEN lo ELSE IF x > hi THEN hi ELSE x

\* a / b rounded to the nearest integer, halves to the even one (np.round).
RoundHalfEven(a, b) ==
    IF 2 * (a % b) < b THEN a \div b
    ELSE IF 2 * (a % b) > b THEN (a \div b) + 1
    ELSE (a \div b) + ((a \div b) % 2)

\* np.round(x, 2) of a value in thousandths.
Round2(x) == RoundHalfEven(x, 10) * 10

\* The k-th value drawn from the random state rng, as an index into a table of
\* n sample values: a fixed function of the seed and of the position.
Draw(rng, k, n) ==
    ((((rng.seed + 3) * (rng.pos + k + 5) * 7) + ((rng.pos + k) * (rng.pos + k))) % n) + 1

\* np.random.<distribution>(..., size): element i of the vector that is the
\* field-th vector drawn after the seed, each vector being count values long.
Sample(table, rng, field, count, i) ==
    table[Draw(rng, field * count + (i - 1), Len(table))]

\* Values the distributions produce, some outside the ranges clipped to.
NormalAges == <<15200, 18500, 19700, 26100>>
Genders == <<"Male", "Female", "Other">>
EducationLevels == <<"High School", "Bachelor", "Master", "PhD", "No Formal Education">>
LogNormalIncomes == <<12345678, 36315502, 95000125, 250000000>>
BetaGpa == <<0, 333, 707, 1000>>
GammaStudyHours == <<412, 6283, 11750, 43900>>
BetaAttendance == <<51234, 83333, 98765, 100000>>
NormalSleep == <<3120, 6874, 7003, 12999>>
ExponentialExercise == <<0, 1234, 3456, 23000>>
ZeroOne == <<0, 1>>
PoissonExtracurricular == <<0, 2, 3, 17>>
SchoolTypes == <<"Public", "Private">>
NormalClassSizes == <<8700, 25400, 29900, 51000>>
NormalNoise == <<-7321, -1250, 0, 2468, 6105>>

\* The values sampled for student i of count, lines 39-73 and 95.
Sampled(rng, count, i) ==
    [age |-> Clip(Sample(NormalAges, rng, 0, count, i), 16000, 25000) \div 1000,
     gender |-> Sample(Genders, rng, 1, count, i),
     parental_education |-> Sample(EducationLevels, rng, 2, count, i),
     household_income |-> Clip(Sample(LogNormalIncomes, rng, 3, count, i), 20000000, 200000000),
     previous_gpa |-> Round2(Sample(BetaGpa, rng, 4, count, i) * 4),
     study_hours_per_week |-> Clip(Sample(GammaStudyHours, rng, 5, count, i), 1000, 40000),
     attendance_rate |-> Sample(BetaAttendance, rng, 6, count, i),
     sleep_hours |-> Clip(Sample(NormalSleep, rng, 7, count, i), 4000, 12000),
     exercise_hours_per_week |-> Clip(Sample(ExponentialExercise, rng, 8, count, i), 0, 20000),
     has_internet |-> Sample(ZeroOne, rng, 9, count, i),
     has_computer |-> Sample(ZeroOne, rng, 10, count, i),
     extracurricular_hours |-> Clip(Sample(PoissonExtracurricular, rng, 11, count, i), 0, 15),
     school_type |-> Sample(SchoolTypes, rng, 12, count, i),
     class_size |-> Clip(Sample(NormalClassSizes, rng, 13, count, i), 10000, 50000) \div 1000,
     noise |-> Sample(NormalNoise, rng, 14, count, i)]

EducationBonus(e) ==
    IF e = "PhD" THEN 5 ELSE IF e = "Master" THEN 3 ELSE IF e = "Bachelor" THEN 1 ELSE 0

\* Variant of IncomeTerm with the coefficient 0.02 per unit of income.
IncomeTermPerUnit(income) == income * 2

\* The household income term of performance_base, (income / 10000) * 0.2, in
\* units of 0.00001.
IncomeTerm(income) == (income * 2) \div 1000

\* performance_base of the sampled values s, in units of 0.00001.
performance_base(s) ==
    s.previous_gpa * 1500
    + s.study_hours_per_week * 120
    + s.attendance_rate * 30
    + s.sleep_hours * 200
    + s.exercise_hours_per_week * 50
    + s.has_internet * 300000
    + s.has_computer * 400000
    + s.extracurricular_hours * 30000
    + IncomeTerm(s.household_income)
    + EducationBonus(s.parental_education) * 100000
    + (IF s.school_type = "Private" THEN 200000 ELSE 0)
    + (30 - s.class_size) * 10000

\* final_score: a number in hundredths, or the NaN that 0 / 0 gives.
NaN == [nan |-> TRUE, v |-> 0]
Finite(v) == [nan |-> FALSE, v |-> v]

\* Long division: q and rem continued by k more decimal digits of rem / r.
RECURSIVE ScaleDiv(_, _, _, _)
ScaleDiv(q, rem, r, k) ==
    IF k = 0 THEN [q |-> q, rem |-> rem]
    ELSE ScaleDiv(q * 10 + ((rem * 10) \div r), (rem * 10) % r, r, k - 1)

\* np.round(d / r * 100, 2) in hundredths, for 0 <= d <= r and r > 0.
Percent(d, r) ==
    Only({IF 2 * x.rem < r THEN x.q
          ELSE IF 2 * x.rem > r THEN x.q + 1
          ELSE x.q + (x.q % 2) :
          x \in {ScaleDiv(d \div r, d % r, r, 4)}})

\* The min-max normalization of lines 99-101; max = min divides 0 by 0.
Normalize(score) ==
    Only({Only({[i \in 1..Len(score) |->
                    IF hi = lo THEN NaN ELSE Finite(Percent(score[i] - lo, hi - lo))] :
                hi \in {MaxOf(Range(score))}}) :
          lo \in {MinOf(Range(score))}})

Digits == <<"0", "1", "2", "3", "4", "5", "6", "7", "8", "9">>

\* f"STU{str(i).zfill(4)}" for i < 100.
StudentId(i) ==
    IF i < 10 THEN "STU000" \o Digits[i + 1]
    ELSE "STU00" \o Digits[(i \div 10) + 1] \o Digits[(i % 10) + 1]

DatasetColumns ==
    <<"student_id", "age", "gender", "parental_education", "household_income",
      "previous_gpa", "study_hours_per_week", "attendance_rate", "sleep_hours",
      "exercise_hours_per_week", "has_internet", "has_computer",
      "extracurricular_hours", "school_type", "class_size", "final_score">>

\* Row i of the DataFrame of lines 104-121.
DatasetRow(i, s, final) ==
    [student_id |-> StudentId(i),
     age |-> s.age,
     gender |-> s.gender,
     parental_education |-> s.parental_education,
     household_income |-> Round2(s.household_income),
     previous_gpa |-> s.previous_gpa,
     study_hours_per_week |-> Round2(s.study_hours_per_week),
     attendance_rate |-> Round2(s.attendance_rate),
     sleep_hours |-> Round2(s.sleep_hours),
     exercise_hours_per_week |-> Round2(s.exercise_hours_per_week),
     has_internet |-> s.has_internet,
     has_computer |-> s.has_computer,
     extracurricular_hours |-> s.extracurricular_hours,
     school_type |-> s.school_type,
     class_size |-> s.class_size,
     final_score |-> final]

\* Variant of reseed that leaves the global random state as it is.
KeepRandomState(self, rng) == rng

\* "np.random.seed(self.random_seed)" at the start of generate_dataset.
reseed(self, rng) == Seeded(self.random_seed)

\* generate_dataset() with the global random state rng: the outcome, the
\* DataFrame returned, the scores before and after the noise, and the global
\* random state left behind.
generate_dataset(self, rng) ==
    Only({IF n = 0
          THEN [ok |-> FALSE,
                err |-> "ValueError: zero-size array to reduction operation minimum",
                data |-> NoDataset, score |-> <<>>, base |-> <<>>, sampled |-> <<>>, rng |-> r0]
          ELSE Only({Only({Only({Only({
                   [ok |-> TRUE, err |-> "",
                    data |-> [columns |-> DatasetColumns,
                              rows |-> [i \in 1..n |-> DatasetRow(i, sampled[i], final[i])]],
                    score |-> score, base |-> base, sampled |-> sampled,
                    rng |-> [r0 EXCEPT !.pos = 15 * n]] :
                   final \in {Normalize(score)}}) :
                   score \in {[i \in 1..n |-> base[i] + sampled[i].noise * 100]}}) :
                   base \in {[i \in 1..n |-> performance_base(sampled[i])]}}) :
                   sampled \in {[i \in 1..n |-> Sampled(r0, n, i)]}}) :
          r0 \in {reseed(self, rng)}, n \in {self.num_students}})

\* StudentDataGenerator(num_students, random_seed): __init__ seeds the global
\* random state.
Construct(g, n, seed) ==
    /\ clock < MaxGenCalls
    /\ gen' = [gen EXCEPT
                  !.objs[g] = [constructed |-> TRUE, num_students |-> n, random_seed |-> seed,
                               generations |-> 0],
                  !.rng = Seeded(seed),
                  !.call = [NoGenCall EXCEPT !.op = "__init__", !.self = g]]
    /\ clock' = clock + 1
    /\ UNCHANGED <<objs, disk, call, succeeded, model, pc, loaded, resp, reqs>>

GenerateDataset(g) ==
    /\ clock < MaxGenCalls
    /\ gen.objs[g].constructed
    /\ \E r \in {generate_dataset(gen.objs[g], gen.rng)} :
          gen' = [gen EXCEPT
                     !.rng = r.rng,
                     !.objs[g].generations = IF r.ok THEN @ + 1 ELSE @,
                     !.call = [op |-> "generate_dataset", self |-> g, ok |-> r.ok,
                               err |-> r.err, data |-> r.data, score |-> r.score,
                               base |-> r.base, sampled |-> r.sampled],
                     !.seen = IF r.ok
                              THEN @ \cup {[count |-> gen.objs[g].num_students,
                                            seed |-> gen.objs[g].random_seed,
                                            data |-> r.data]}
                              ELSE @]
    /\ clock' = clock + 1
    /\ UNCHANGED <<objs, disk, call, succeeded, model, pc, loaded, resp, reqs>>

\* Another user of the global random state draws a value from it
\* (np.random.randint in generate_sample).
RandInt ==
    /\ clock < MaxGenCalls
    /\ gen' = [gen EXCEPT !.rng.pos = @ + 1,
                          !.call = [NoGenCall EXCEPT !.op = "randint"]]
    /\ clock' = clock + 1
    /\ UNCHANGED <<objs, disk, call, succeeded, model, pc, loaded, resp, reqs>>

InitGen ==
    /\ objs = [i \in Instances |-> NewStudentPerformanceModel]
    /\ disk = [d \in AbsoluteDirs |-> EmptyDir]
    /\ clock = 0
    /\ call = NoCall
    /\ succeeded = NoneSucceeded
    /\ AppIdle
    /\ \E e \in EntropySeeds : gen = [GenIdle EXCEPT !.rng = Seeded(e)]

NextGen ==
    \/ \E g \in Generators, n \in 0..MaxStudents, seed \in Seeds : Construct(g, n, seed)
    \/ \E g \in Generators : GenerateDataset(g)
    \/ RandInt

SpecGen == InitGen /\ [][NextGen]_vars

\* ------------------------------------------------------- prediction service
\* Request bodies.  kind is "absent" (no body), "object", "array" or "number";
\* records are the student records of an object (one) or of an array.
Body(kind, columns, records) == [kind |-> kind, columns |-> columns, records |-> records]

BodyNames ==
    {"absent", "empty_object", "empty_list", "number", "one", "unknown_gender", "no_age",
     "batch", "mixed"}

BodyOf(name) ==
    CASE name = "absent"         -> Body("absent", <<>>, <<>>)
      [] name = "empty_object"   -> Body("object", <<>>, <<>>)
      [] name = "empty_list"     -> Body("array", <<>>, <<>>)
      [] name = "number"         -> Body("number", <<>>, <<>>)
      [] name = "one"            -> Body("object", FrameOf("one").columns, FrameOf("one").rows)
      [] name = "unknown_gender" -> Body("object", FrameOf("unknown_gender").columns,
                                         FrameOf("unknown_gender").rows)
      [] name = "no_age"         -> Body("object", Project(RowsA, Features \ {"age"}).columns,
                                         SubSeq(Project(RowsA, Features \ {"age"}).rows, 1, 1))
      [] name = "batch"          -> Body("array", FrameOf("no_target").columns,
                                         SubSeq(FrameOf("no_target").rows, 1, 2))
      [] name = "mixed"          -> Body("array", FrameOf("mixed").columns, FrameOf("mixed").rows)

\* request.get_json(): the parsed body, None (kind "absent") for a request without
\* a JSON body, or an exception (the request has no body to parse and Flask
\* raises BadRequest / UnsupportedMediaType).  Which of the two a missing body
\* gives depends on the request's content type and the Flask version.
get_json(body) ==
    IF body.kind = "absent"
    THEN {[raised |-> FALSE, err |-> "", data |-> body],
          [raised |-> TRUE, err |-> "400 Bad Request: Failed to decode JSON object", data |-> body]}
    ELSE {[raised |-> FALSE, err |-> "", data |-> body]}

\* "not data"
IsFalsy(data) ==
    \/ data.kind = "absent"
    \/ data.kind \in {"object", "array"} /\ data.records = <<>>

\* "isinstance(data, list)"
IsList(data) == data.kind = "array"

\* pd.DataFrame([data]): one row; a record gives its keys as columns, anything
\* else a single column "0" holding the value.
DataFrameOfOne(data) ==
    IF data.kind = "object" THEN Frame(data.columns, data.records)
    ELSE Frame(<<"0">>, <<[c \in {"0"} |-> Str("value")]>>)

\* pd.DataFrame(data): one row per record of the list.
DataFrameOfList(data) == Frame(data.columns, data.records)

NoneGlobal == [isNone |-> TRUE, obj |-> NewStudentPerformanceModel]

Response(endpoint, body, status, error) ==
    [NoResponse EXCEPT !.endpoint = endpoint, !.body = body, !.status = status,
                       !.error = error, !.timestamp = clock]

\* load_or_train_model(): the new value of the global and the value returned.
load_or_train_model(files) ==
    IF files[ProjectModelsDir].model_file.status # "absent"
    THEN Only({[model |-> [isNone |-> FALSE, obj |-> r.self], result |-> r.ok] :
               r \in {load_model(NewStudentPerformanceModel, files, ProjectModelsDir)}})
    ELSE [model |-> [isNone |-> FALSE, obj |-> NewStudentPerformanceModel], result |-> FALSE]

\* __main__, first half: the call of load_or_train_model.
LoadOrTrainModel ==
    /\ pc = "main"
    /\ \E r \in {load_or_train_model(disk)} :
          /\ model' = r.model
          /\ loaded' = IF r.result THEN "True" ELSE "False"
    /\ pc' = "main_loaded"
    /\ UNCHANGED <<objs, disk, clock, call, succeeded, resp, gen, reqs>>

\* Variant of main_after_load that starts the server whatever the load returned.
MainAlwaysServes(result) == "serving"

\* What __main__ does with the value returned: sys.exit(1) or app.run(...).
main_after_load(result) == IF result = "True" THEN "serving" ELSE "exited"

MainStart ==
    /\ pc = "main_loaded"
    /\ pc' = main_after_load(loaded)
    /\ UNCHANGED <<objs, disk, clock, call, succeeded, model, loaded, resp, gen, reqs>>

\* Requests are handled by the running server, and by a client of the imported
\* module (tests/test_all.py, TestFlaskApp), which never loads a model.
Accepting == pc \in {"serving", "imported"} /\ clock < MaxRequests

Handled(r) ==
    /\ resp' = r
    /\ clock' = clock + 1
    /\ UNCHANGED <<objs, disk, call, succeeded, pc, loaded, reqs>>

\* Variant of health_response that always reports a model.
HealthAlwaysLoaded ==
    [Response("/health", "", 200, "") EXCEPT !.model_loaded = TRUE]

health_response ==
    [Response("/health", "", 200, "") EXCEPT !.model_loaded = ~model.isNone]

Health ==
    /\ Accepting
    /\ Handled(health_response)
    /\ UNCHANGED <<model, gen>>

model_info_response ==
    IF model.isNone THEN Response("/model/info", "", 500, "Model not loaded")
    ELSE [Response("/model/info", "", 200, "") EXCEPT !.info = Metadata(model.obj)]

ModelInfo ==
    /\ Accepting
    /\ Handled(model_info_response)
    /\ UNCHANGED <<model, gen>>

Served(response, self) == [resp |-> response, model |-> [isNone |-> FALSE, obj |-> self]]

\* predict_single() from "df = pd.DataFrame([data])" on.
\* The response of predict_single to the outcome r of model.predict(df).
SingleResponse(b, data, r) ==
    IF ~r.ok
    THEN Served([Response("/predict", b, 500, r.err) EXCEPT !.invoked = TRUE], r.self)
    ELSE Served([Response("/predict", b, 200, "") EXCEPT
                     !.invoked = TRUE,
                     !.predictions = <<r.out[1]>>,
                     !.input_data = data.records], r.self)

predict_single_data(m, b, data) ==
    Only({SingleResponse(b, data, r) :
          r \in {predict(m.obj, frame) : frame \in {DataFrameOfOne(data)}}})

\* predict_single() for the request body named b when the global model is m:
\* the set of outcomes, each the response and the global model after the
\* request.
PredictSingleOn(m, b) ==
    IF m.isNone
    THEN {[resp |-> Response("/predict", b, 500, "Model not loaded"), model |-> m]}
    ELSE {IF g.raised THEN Served(Response("/predict", b, 500, g.err), m.obj)
          ELSE IF IsFalsy(g.data)
          THEN Served(Response("/predict", b, 400, "No data provided"), m.obj)
          ELSE predict_single_data(m, b, g.data)
          : g \in get_json(BodyOf(b))}

predict_single(b) == PredictSingleOn(model, b)

PredictSingle(b) ==
    /\ Accepting
    /\ \E o \in predict_single(b) :
          /\ model' = o.model
          /\ Handled(o.resp)
    /\ UNCHANGED gen

MinLen(a, b) == IF Len(a) < Len(b) THEN Len(a) ELSE Len(b)

\* predict_batch() from "df = pd.DataFrame(data)" on.
\* The response of predict_batch to the outcome r of model.predict(df).
BatchResponse(b, data, r) ==
    IF ~r.ok
    THEN Served([Response("/predict/batch", b, 500, r.err) EXCEPT !.invoked = TRUE], r.self)
    ELSE Only({Served([Response("/predict/batch", b, 200, "") EXCEPT
                           !.invoked = TRUE,
                           !.predictions = SubSeq(r.out, 1, k),
                           !.indexes = [i \in 1..k |-> i - 1],
                           !.input_data = SubSeq(data.records, 1, k),
                           !.count = k], r.self) :
               k \in {MinLen(r.out, data.records)}})

predict_batch_data(m, b, data) ==
    Only({BatchResponse(b, data, r) :
          r \in {predict(m.obj, frame) : frame \in {DataFrameOfList(data)}}})

\* predict_batch() for the request body named b when the global model is m.
PredictBatchOn(m, b) ==
    IF m.isNone
    THEN {[resp |-> Response("/predict/batch", b, 500, "Model not loaded"), model |-> m]}
    ELSE {IF g.raised THEN Served(Response("/predict/batch", b, 500, g.err), m.obj)
          ELSE IF IsFalsy(g.data) \/ ~IsList(g.data)
          THEN Served(Response("/predict/batch", b, 400,
                               "Data should be a list of student records"), m.obj)
          ELSE predict_batch_data(m, b, g.data)
          : g \in get_json(BodyOf(b))}

predict_batch(b) == PredictBatchOn(model, b)

PredictBatch(b) ==
    /\ Accepting
    /\ \E o \in predict_batch(b) :
          /\ model' = o.model
          /\ Handled(o.resp)
    /\ UNCHANGED gen

\* np.random.randint(1, 1000): one value drawn from the global random state.
randint(rng) == ((rng.seed * 37 + rng.pos * 11 + 1) % 999) + 1

\* StudentDataGenerator(num_students=5, random_seed=...) in generate_sample.
SampleGenerator(seed) ==
    [constructed |-> TRUE, num_students |-> 5, random_seed |-> seed, generations |-> 0]

\* generate_sample(): a generator seeded from the global random state generates
\* five records; the model is not involved.  The response and the global random
\* state left behind.
generate_sample ==
    Only({[resp |-> IF r.ok
                    THEN [Response("/generate/sample", "", 200, "") EXCEPT
                              !.count = Len(r.data.rows)]
                    ELSE Response("/generate/sample", "", 500, r.err),
           rng |-> r.rng] :
          r \in {generate_dataset(SampleGenerator(seed), Seeded(seed)) :
                 seed \in {randint(gen.rng)}}})

generate_sample_response == generate_sample.resp

GenerateSample ==
    /\ Accepting
    /\ \E o \in {generate_sample} :
          /\ Handled(o.resp)
          /\ gen' = [gen EXCEPT !.rng = o.rng]
    /\ UNCHANGED model

\* The models an earlier run may have saved to <project>/models.
SavedModels ==
    UNION {TrainedOn(d, t) : d \in {"students_a", "no_school"}, t \in ModelTypes}

InitApp ==
    /\ objs = [i \in Instances |-> NewStudentPerformanceModel]
    /\ \E m \in SavedModels, gone \in SUBSET ArtifactFiles, bad \in SUBSET ArtifactFiles :
          /\ Cardinality(bad) <= 1
          /\ gone \cap bad = {}
          /\ \E dir \in {Damaged(SavedDir(m), gone, bad)} :
                disk = [d \in AbsoluteDirs |-> IF d = ProjectModelsDir THEN dir ELSE EmptyDir]
    /\ clock = 0
    /\ call = NoCall
    /\ succeeded = NoneSucceeded
    /\ model = NoneGlobal
    /\ pc \in {"main", "imported"}
    /\ loaded = "not_called"
    /\ resp = NoResponse
    /\ gen = GenIdle
    /\ reqs = NoRequests

NextApp ==
    \/ LoadOrTrainModel
    \/ MainStart
    \/ Health
    \/ ModelInfo
    \/ \E b \in BodyNames : PredictSingle(b)
    \/ \E b \in BodyNames : PredictBatch(b)
    \/ GenerateSample

SpecApp == InitApp /\ [][NextApp]_vars

\* --------------------------------------------- concurrent prediction requests
\* app.run (app.py:278) serves every request in a thread of its own, and the
\* threads share the global model.  A thread can be preempted between any two
\* statements; the steps below keep together everything up to a statement that
\* writes to the shared model, so every interleaving of them is one that the
\* threads can produce.
PredictEndpoints == {"/predict", "/predict/batch"}
ParallelBodies == {"one", "unknown_gender", "batch", "empty_list"}

\* "if not data" of predict_single, "if not data or not isinstance(data, list)"
\* of predict_batch, and the message of the 400 response.
Rejected(e, data) == IF e = "/predict" THEN IsFalsy(data) ELSE IsFalsy(data) \/ ~IsList(data)

RejectMessage(e) ==
    IF e = "/predict" THEN "No data provided" ELSE "Data should be a list of student records"

\* pd.DataFrame([data]) of predict_single, pd.DataFrame(data) of predict_batch.
InputFrame(e, data) == IF e = "/predict" THEN DataFrameOfOne(data) ELSE DataFrameOfList(data)

\* The response of either handler to the outcome r of model.predict(df).
PredictResponse(e, b, r) ==
    IF e = "/predict" THEN SingleResponse(b, BodyOf(b), r) ELSE BatchResponse(b, BodyOf(b), r)

\* The handler from its first statement to the entry of preprocess_data: the
\* request is answered at once (done), or predict goes on with the frame.
Enter(e, b) ==
    IF model.isNone
    THEN {[done |-> TRUE, data |-> Frame(<<>>, <<>>),
           out |-> [resp |-> Response(e, b, 500, "Model not loaded"), model |-> model]]}
    ELSE {IF g.raised
          THEN [done |-> TRUE, data |-> Frame(<<>>, <<>>),
                out |-> Served(Response(e, b, 500, g.err), model.obj)]
          ELSE IF Rejected(e, g.data)
          THEN [done |-> TRUE, data |-> Frame(<<>>, <<>>),
                out |-> Served(Response(e, b, 400, RejectMessage(e)), model.obj)]
          ELSE IF model.obj.model.kind = "None"
          THEN [done |-> TRUE, data |-> Frame(<<>>, <<>>),
                out |-> PredictResponse(e, b,
                            PredictFailed(model.obj,
                                          "Model not trained yet. Call train() first."))]
          ELSE [done |-> FALSE, data |-> InputFrame(e, g.data),
                out |-> Served(NoResponse, model.obj)]
          : g \in get_json(BodyOf(b))}

\* The handler of thread t, serving body b at endpoint e, returns the response
\* of o and leaves the model of o.
Finish(t, e, b, o) ==
    /\ reqs' = [reqs EXCEPT ![t].pc = "done", ![t].endpoint = e, ![t].body = b,
                            ![t].resp = o.resp]
    /\ model' = o.model
    /\ resp' = o.resp
    /\ clock' = clock + 1
    /\ UNCHANGED <<objs, disk, call, succeeded, pc, loaded, gen>>

\* The exception err leaves predict and the handler answers 500.
Raise(t, err) ==
    Finish(t, reqs[t].endpoint, reqs[t].body,
           PredictResponse(reqs[t].endpoint, reqs[t].body, PredictFailed(model.obj, err)))

\* Thread t goes on in preprocess_data without a write to the model.
Continue(t, request) ==
    /\ reqs' = [reqs EXCEPT ![t] = request]
    /\ UNCHANGED <<objs, disk, clock, call, succeeded, model, pc, loaded, resp, gen>>

Receive(t, e, b) ==
    /\ pc = "serving"
    /\ reqs[t].pc = "idle"
    /\ \E o \in Enter(e, b) :
          IF o.done
          THEN Finish(t, e, b, o.out)
          ELSE Continue(t, [NoRequest EXCEPT !.pc = "preprocess", !.endpoint = e,
                                             !.body = b, !.data = o.data])

\* One turn of the loop of preprocess_data (model.py:47-53) up to its write to
\* the shared dict: a column the frame lacks is skipped; a column without an
\* encoder gets a new, unfitted LabelEncoder (line 49); a column with an encoder
\* is transformed by it (line 53).
EncodeColumn(t) ==
    /\ reqs[t].pc = "preprocess"
    /\ reqs[t].col <= Len(categorical_columns)
    /\ \E col \in {categorical_columns[reqs[t].col]} :
          IF ~HasColumn(reqs[t].data, col)
          THEN Continue(t, [reqs[t] EXCEPT !.col = @ + 1])
          ELSE IF ~HasEncoder(model.obj, col)
          THEN /\ model' = [model EXCEPT !.obj.label_encoders[col] = NewLabelEncoder]
               /\ reqs' = [reqs EXCEPT ![t].pc = "fit"]
               /\ UNCHANGED <<objs, disk, clock, call, succeeded, pc, loaded, resp, gen>>
          ELSE \E r \in {LabelEncoderTransform(model.obj.label_encoders[col],
                                               Column(reqs[t].data, col))} :
                  IF r.ok
                  THEN Continue(t, [reqs[t] EXCEPT !.data = SetColumn(@, col, r.out),
                                                   !.col = @ + 1])
                  ELSE Raise(t, r.err)

\* model.py:50: fit_transform on the encoder the dict holds for the column.
FitColumn(t) ==
    /\ reqs[t].pc = "fit"
    /\ \E col \in {categorical_columns[reqs[t].col]} :
       \E r \in {LabelEncoderFitTransform(Column(reqs[t].data, col))} :
       \E fitted \in {[model EXCEPT !.obj.label_encoders[col] = r.enc]} :
          IF r.ok
          THEN /\ model' = fitted
               /\ reqs' = [reqs EXCEPT ![t].pc = "preprocess",
                                       ![t].data = SetColumn(@, col, r.out),
                                       ![t].col = @ + 1]
               /\ UNCHANGED <<objs, disk, clock, call, succeeded, pc, loaded, resp, gen>>
          ELSE Finish(t, reqs[t].endpoint, reqs[t].body,
                      PredictResponse(reqs[t].endpoint, reqs[t].body,
                                      PredictFailed(fitted.obj, r.err)))

\* predict after preprocess_data (model.py:175-185) and the rest of the handler.
Respond(t) ==
    /\ reqs[t].pc = "preprocess"
    /\ reqs[t].col > Len(categorical_columns)
    /\ \E r \in {PredictPrepared(model.obj, reqs[t].data)} :
          Finish(t, reqs[t].endpoint, reqs[t].body,
                 PredictResponse(reqs[t].endpoint, reqs[t].body, r))

\* The server is up with the model it loaded from <project>/models.
InitPar ==
    /\ objs = [i \in Instances |-> NewStudentPerformanceModel]
    /\ \E m \in SavedModels :
          disk = [d \in AbsoluteDirs |-> IF d = ProjectModelsDir THEN SavedDir(m) ELSE EmptyDir]
    /\ clock = 0
    /\ call = NoCall
    /\ succeeded = NoneSucceeded
    /\ model = load_or_train_model(disk).model
    /\ pc = "serving"
    /\ loaded = "True"
    /\ resp = NoResponse
    /\ gen = GenIdle
    /\ reqs = NoRequests

NextPar ==
    \/ \E t \in Threads, e \in PredictEndpoints, b \in ParallelBodies : Receive(t, e, b)
    \/ \E t \in Threads : EncodeColumn(t)
    \/ \E t \in Threads : FitColumn(t)
    \/ \E t \in Threads : Respond(t)

SpecPar == InitPar /\ [][NextPar]_vars

\* ================================================================== claims

NotTrainedError == "Model not trained yet. Call train() first."

\* C1: predict on an instance on which no train call and no load_model call
\* has completed successfully always fails with the 'model not trained' error;
\* it never returns a prediction.  Stated by its last part, which the first
\* implies: such a call does not return normally.
Untrained(i) == succeeded[i].train = 0 /\ succeeded[i].load_model = 0

C1_UntrainedPredictFails ==
    (call.op = "predict" /\ Untrained(call.self)) => (~call.ok /\ call.out = <<>>)

\* C4: once a label encoder exists for a categorical column, no preprocess_data,
\* train or predict call changes it (it is never re-fitted, extended or
\* remapped), and a call whose data holds a value outside the fitted classes of
\* the column fails.
UsesEncoders == {"preprocess_data", "train", "predict"}

HasUnseenValue(self, data) ==
    \E c \in Range(categorical_columns) :
        /\ HasColumn(data, c)
        /\ self.label_encoders[c].fitted
        /\ \E k \in 1..Len(data.rows) :
              data.rows[k][c] \notin Range(self.label_encoders[c].classes_)

C4_EncoderFrozen ==
    [][call'.op \in UsesEncoders /\ clock' # clock =>
         /\ \A i \in Instances, c \in Range(categorical_columns) :
               objs[i].label_encoders[c].present =>
                   objs'[i].label_encoders[c] = objs[i].label_encoders[c]
         /\ HasUnseenValue(objs[call'.self], InputOf(call'.data, call)) => ~call'.ok]_vars

C4_Witness ==
    /\ call.op \in UsesEncoders
    /\ ~call.ok
    /\ call.err = "y contains previously unseen labels"
    /\ objs[call.self].label_encoders["gender"].fitted
    /\ Str("Unknown") \notin Range(objs[call.self].label_encoders["gender"].classes_)

\* C5 as claimed: the scaler of an instance is fitted exactly once, by the
\* first train call; no later train, predict, preprocess_data or save_model call
\* on the instance fits it again (changes a fitted scaler).
C5_ScalerFittedOnce ==
    [][call'.op \in {"train", "predict", "preprocess_data", "save_model"} /\ clock' # clock =>
         \A i \in Instances : objs[i].scaler.fitted => objs'[i].scaler = objs[i].scaler]_vars

\* The rows the scaler of instance self was fitted on by a train call on data:
\* the training part of the feature rows.
TrainingRows(self, data) ==
    Only({Only({SubSeq(AsArray(f.X), 1, TrainSize(Len(f.X))) :
                f \in {prepare_features(p.self, p.data)}}) :
          p \in {preprocess_data(self, data)}})

\* C5 as amended: the scaler is fitted by train, on the training split only, and
\* by every train call that gets as far as the scaling step, so a second train
\* call fits it again; no predict, preprocess_data or save_model call changes it.
C5_ScalerFittedByTrainOnly ==
    [][clock' # clock =>
         /\ call'.op \in {"predict", "preprocess_data", "save_model"} =>
               \A i \in Instances : objs'[i].scaler = objs[i].scaler
         /\ call'.op = "train" =>
               /\ \A i \in Instances \ {call'.self} : objs'[i].scaler = objs[i].scaler
               /\ (call'.ok \/ objs'[call'.self].scaler # objs[call'.self].scaler) =>
                     \E frame \in {FrameOf(call'.data)} :
                     \E rows \in {TrainingRows(objs'[call'.self], frame)} :
                         objs'[call'.self].scaler = ScalerFit(rows)]_vars

C5_Witness ==
    /\ call.op = "train"
    /\ call.ok
    /\ succeeded[call.self].train >= 2
    /\ objs[call.self].scaler.fitted

\* C6: after M.save_model(d) and load_model(d) on another instance F, F has the
\* feature columns, target column, metrics, label encoders and scaler of M, and
\* F.predict(X) = M.predict(X) for every X that M can predict on.
SamePredictions(M, F) ==
    \A d \in FrameNames :
        \E frame \in {FrameOf(d)} : \E pm \in {predict(M, frame)} : \E pf \in {predict(F, frame)} :
            pm.ok => pf.ok /\ pf.out = pm.out

C6_SaveLoadRoundTrip ==
    [][(/\ clock' # clock
        /\ call.op = "save_model" /\ call.ok
        /\ call'.op = "load_model" /\ call'.ok
        /\ call'.dir = call.dir
        /\ call'.self # call.self) =>
           \E M \in {objs'[call.self]} : \E F \in {objs'[call'.self]} :
               /\ F.feature_columns = M.feature_columns
               /\ F.target_column = M.target_column
               /\ F.model_metrics = M.model_metrics
               /\ F.label_encoders = M.label_encoders
               /\ F.scaler = M.scaler
               /\ SamePredictions(M, F)]_vars

C6_Witness ==
    /\ call.op = "load_model" /\ call.ok /\ call.dir = "/tmp/models"
    /\ succeeded["M"].train >= 1
    /\ disk["/tmp/models"].model_file.content = objs["M"].model
    /\ objs["F"].model = objs["M"].model
    /\ \E frame \in {FrameOf("one")} : predict(objs["F"], frame).ok

\* --------------------------------------------------------- service claims
UnseenLabelsError == "y contains previously unseen labels"

AllFour(dir) == \A f \in ArtifactFiles : dir[f].status = "ok"

\* C2: with a model loaded, a POST /predict/batch whose list holds a record with
\* a categorical value that the column's encoder was not fitted on fails as a
\* whole: the response is an error carrying the category error and holds no
\* prediction for any record.
C2_BatchFailsAsAWhole ==
    [][(/\ clock' # clock
        /\ resp'.endpoint = "/predict/batch"
        /\ loaded = "True"
        /\ ~model.isNone
        /\ BodyOf(resp'.body).kind = "array"
        /\ HasUnseenValue(model.obj, DataFrameOfList(BodyOf(resp'.body)))) =>
           /\ resp'.status = 500
           /\ resp'.error = UnseenLabelsError
           /\ resp'.predictions = <<>>
           /\ resp'.indexes = <<>>
           /\ resp'.count = 0]_vars

C2_Witness ==
    /\ resp.endpoint = "/predict/batch"
    /\ resp.body = "mixed"
    /\ loaded = "True"
    /\ resp.status = 500
    /\ resp.error = UnseenLabelsError
    /\ HasUnseenValue(model.obj, DataFrameOfList(BodyOf("mixed")))
    /\ Len(BodyOf("mixed").records) > 1

\* C3: serving never changes the fitted state of the loaded model: after every
\* request the global model (estimator, scaler, label encoders, feature columns,
\* target column, metrics) is what it was before the request.
C3_ServingKeepsModel ==
    [][pc = "serving" /\ ~model.isNone => model' = model]_vars

C9_HealthAndInfo ==
    /\ pc \in {"serving", "imported"} =>
          /\ health_response.status = 200
          /\ health_response.model_loaded <=> loaded = "True"
          /\ model_info_response.status = 200 => loaded = "True"
          /\ loaded # "True" =>
                /\ model_info_response.status = 500
                /\ model_info_response.error = "Model not loaded"
    /\ resp.endpoint = "/health" =>
          /\ resp.status = 200
          /\ resp.model_loaded <=> loaded = "True"
    /\ resp.endpoint = "/model/info" =>
          IF loaded = "True" THEN resp.status = 200
          ELSE resp.status = 500 /\ resp.error = "Model not loaded"

C9_Witness ==
    /\ resp.endpoint = "/health"
    /\ resp.status = 200
    /\ ~resp.model_loaded
    /\ loaded = "not_called"
    /\ pc = "imported"

\* C10: with a model loaded POST /predict answers 400, without invoking the
\* pipeline, to a missing or empty body; 500 with the error's message when the
\* pipeline raises on a non-empty body; and otherwise 200 with the prediction of
\* the one record, the echoed input and a timestamp.  With no model loaded it
\* answers 500.
C10_PredictClassification ==
    [][(clock' # clock /\ resp'.endpoint = "/predict") =>
          IF model.isNone
          THEN resp'.status = 500 /\ resp'.error = "Model not loaded"
          ELSE \E body \in {BodyOf(resp'.body)} :
                 IF IsFalsy(body)
                 THEN resp'.status = 400 /\ ~resp'.invoked
                 ELSE \E frame \in {DataFrameOfOne(body)} :
                      \E r \in {predict(model.obj, frame)} :
                        IF ~r.ok
                        THEN resp'.status = 500 /\ resp'.error = r.err
                        ELSE /\ resp'.status = 200
                             /\ resp'.predictions = <<r.out[1]>>
                             /\ resp'.input_data = body.records
                             /\ resp'.timestamp = clock]_vars

\* C11, stated by its second half: with a model loaded, a POST /predict/batch
\* whose body is a list, of any length, is not answered with the 400 validation
\* error, and a success response holds one result per element of the list.
C11_ListNeverRejected ==
    (resp.endpoint = "/predict/batch" /\ loaded = "True" /\ BodyOf(resp.body).kind = "array") =>
        /\ resp.status # 400
        /\ resp.status = 200 =>
              /\ resp.count = Len(BodyOf(resp.body).records)
              /\ Len(resp.predictions) = Len(BodyOf(resp.body).records)

\* The frame of the i-th record of a list body alone.
RecordFrame(body, i) == Frame(body.columns, <<body.records[i]>>)

\* Every record of the list is one the model predicts on.
ValidRecords(self, body) ==
    \A i \in 1..Len(body.records) :
        \E frame \in {RecordFrame(body, i)} : predict(self, frame).ok

\* C12: with a model loaded and a list of k valid records, POST /predict/batch
\* returns exactly k results in input order: the i-th has student_index i,
\* echoes the i-th record and carries the prediction of that record; count = k.
C12_BatchInOrder ==
    [][(/\ clock' # clock
        /\ resp'.endpoint = "/predict/batch"
        /\ loaded = "True"
        /\ ~model.isNone
        /\ BodyOf(resp'.body).kind = "array"
        /\ ValidRecords(model.obj, BodyOf(resp'.body))) =>
           \E body \in {BodyOf(resp'.body)} : \E k \in {Len(body.records)} :
               /\ resp'.status = 200
               /\ resp'.count = k
               /\ Len(resp'.predictions) = k
               /\ Len(resp'.indexes) = k
               /\ Len(resp'.input_data) = k
               /\ \A i \in 1..k :
                     /\ resp'.indexes[i] = i - 1
                     /\ resp'.input_data[i] = body.records[i]
                     /\ \E frame \in {RecordFrame(body, i)} :
                           resp'.predictions[i] = predict(model.obj, frame).out[1]]_vars

\* C12 for lists of at least one record.
C12_NonEmptyBatchInOrder ==
    [][(/\ clock' # clock
        /\ resp'.endpoint = "/predict/batch"
        /\ loaded = "True"
        /\ ~model.isNone
        /\ BodyOf(resp'.body).kind = "array"
        /\ BodyOf(resp'.body).records # <<>>
        /\ ValidRecords(model.obj, BodyOf(resp'.body))) =>
           \E body \in {BodyOf(resp'.body)} : \E k \in {Len(body.records)} :
               /\ resp'.status = 200
               /\ resp'.count = k
               /\ Len(resp'.predictions) = k
               /\ \A i \in 1..k :
                     /\ resp'.indexes[i] = i - 1
                     /\ resp'.input_data[i] = body.records[i]
                     /\ \E frame \in {RecordFrame(body, i)} :
                           resp'.predictions[i] = predict(model.obj, frame).out[1]]_vars

\* C13: with encoders fitted, preprocess_data on data that preprocess_data has
\* already encoded succeeds, returns the once-encoded data unchanged and leaves
\* the encoders as they are.
C13_PreprocessIdempotent ==
    [][(clock' # clock /\ call'.op = "preprocess_data" /\ call'.data = "encoded") =>
          /\ call'.ok
          /\ call'.frame = call.frame
          /\ objs'[call'.self].label_encoders = objs[call'.self].label_encoders]_vars

\* ------------------------------------------------------- generator claims
Generated == gen.call.op = "generate_dataset" /\ gen.call.ok

\* C14: for every count of at least 2 and every seed, generate_dataset returns
\* exactly count records, and all generations with the same (count, seed) return
\* the same dataset, from whichever instance and whatever was drawn from the
\* global random state or whichever generator was constructed in between.
C14_Deterministic ==
    /\ \A a, b \in gen.seen :
          (a.count >= 2 /\ a.count = b.count /\ a.seed = b.seed) => a.data = b.data
    /\ \A a \in gen.seen : a.count >= 2 => Len(a.data.rows) = a.count
    /\ (gen.call.op = "generate_dataset" /\ gen.objs[gen.call.self].num_students >= 2) =>
          /\ gen.call.ok
          /\ Len(gen.call.data.rows) = gen.objs[gen.call.self].num_students

C14_Witness ==
    /\ Generated
    /\ gen.call.self = "gen2"
    /\ gen.objs["gen1"].generations >= 1
    /\ gen.objs["gen2"].generations >= 1
    /\ gen.objs["gen1"].num_students >= 2
    /\ gen.objs["gen1"].num_students = gen.objs["gen2"].num_students
    /\ gen.objs["gen1"].random_seed = gen.objs["gen2"].random_seed

InRange(x, lo, hi) == lo <= x /\ x <= hi

\* C15: in every generated batch of at least 2 records every record has its
\* fields in their ranges and final_score in [0, 100], and the batch has a
\* record with final_score 0 and one with final_score 100.
\* (The raw scores of the sampled batches differ from one another; a batch
\* whose raw scores all coincide is the case of C16.)
C15_FieldsInRange ==
    (Generated /\ Len(gen.call.data.rows) >= 2) =>
        /\ \A i \in 1..Len(gen.call.data.rows) : \E r \in {gen.call.data.rows[i]} :
              /\ InRange(r.age, 16, 25)
              /\ InRange(r.previous_gpa, 0, 4000)
              /\ InRange(r.study_hours_per_week, 1000, 40000)
              /\ InRange(r.attendance_rate, 0, 100000)
              /\ InRange(r.sleep_hours, 4000, 12000)
              /\ InRange(r.exercise_hours_per_week, 0, 20000)
              /\ InRange(r.extracurricular_hours, 0, 15)
              /\ InRange(r.class_size, 10, 50)
              /\ InRange(r.household_income, 20000000, 200000000)
              /\ r.has_internet \in {0, 1}
              /\ r.has_computer \in {0, 1}
              /\ ~r.final_score.nan
              /\ InRange(r.final_score.v, 0, 10000)
        /\ \E i \in 1..Len(gen.call.data.rows) : gen.call.data.rows[i].final_score = Finite(0)
        /\ \E i \in 1..Len(gen.call.data.rows) : gen.call.data.rows[i].final_score = Finite(10000)

C15_Witness ==
    /\ Generated
    /\ Len(gen.call.data.rows) >= 2
    /\ \E i \in 1..Len(gen.call.data.rows) :
          /\ gen.call.data.rows[i].household_income = 200000000
          /\ gen.call.data.rows[i].final_score.v \notin {0, 10000}
    /\ \E i \in 1..Len(gen.call.data.rows) : gen.call.data.rows[i].class_size = 50
    /\ \E i \in 1..Len(gen.call.data.rows) : gen.call.data.rows[i].final_score = Finite(10000)

\* C16: when the scores of a batch all coincide (max = min, as in a batch of one
\* record), generate_dataset either refuses or gives every record the final_score
\* 50; it returns no record whose final_score is the result of dividing by zero.
C16_DegenerateBatch ==
    (Generated /\ MaxOf(Range(gen.call.score)) = MinOf(Range(gen.call.score))) =>
        \A i \in 1..Len(gen.call.data.rows) : gen.call.data.rows[i].final_score = Finite(5000)

\* The score before noise and normalization as C17 gives it, in units of 0.00001,
\* with the household income term passed in.
ScoreFormula(s, income_term) ==
    1500 * s.previous_gpa
    + 120 * s.study_hours_per_week
    + 30 * s.attendance_rate
    + 200 * s.sleep_hours
    + 50 * s.exercise_hours_per_week
    + 300000 * s.has_internet
    + 400000 * s.has_computer
    + 30000 * s.extracurricular_hours
    + income_term
    + 100000 * (CASE s.parental_education = "PhD" -> 5
                  [] s.parental_education = "Master" -> 3
                  [] s.parental_education = "Bachelor" -> 1
                  [] OTHER -> 0)
    + (IF s.school_type = "Private" THEN 200000 ELSE 0)
    + 10000 * (30 - s.class_size)

\* C17 as claimed: the score before noise and normalization of every record is
\* 15*gpa + 1.2*study + 0.3*attendance + 2*sleep + 0.5*exercise + 3*internet
\* + 4*computer + 0.3*extracurricular + 0.02*household_income + education bonus
\* + 2 if Private + 0.1*(30 - class_size).
C17_ScoreFormula ==
    Generated =>
        \A i \in 1..Len(gen.call.base) : \E s \in {gen.call.sampled[i]} :
            gen.call.base[i] = ScoreFormula(s, 2 * s.household_income)

\* C17 as amended: the same with the household income term 0.00002*income, that
\* is 0.2 for every 10000 of income.
C17_ScoreFormulaPer10000 ==
    Generated =>
        \A i \in 1..Len(gen.call.base) : \E s \in {gen.call.sampled[i]} :
            gen.call.base[i] = ScoreFormula(s, (2 * s.household_income) \div 1000)

C17_Witness ==
    /\ Generated
    /\ \E i \in 1..Len(gen.call.sampled) : \E s \in {gen.call.sampled[i]} :
          /\ s.household_income = 200000000
          /\ s.parental_education \in {"PhD", "Master", "Bachelor"}
          /\ gen.call.base[i] = ScoreFormula(s, 400000)

\* ------------------------------------------------------ behaviour claims
\* The feature rows and the target values that instance self gets from data.
FeatureRows(self, data) ==
    Only({Only({AsArray(f.X) : f \in {prepare_features(p.self, p.data)}}) :
          p \in {preprocess_data(self, data)}})

TrainingTarget(self, data) ==
    Only({Only({SubSeq(f.y, 1, TrainSize(Len(f.X))) :
                f \in {prepare_features(p.self, p.data)}}) :
          p \in {preprocess_data(self, data)}})

\* The estimator was fitted on the scaler's output (an array, without feature
\* names) and not on the raw feature frame.
FittedOnScaled(est) == est.fitted /\ est.names = <<>>

\* C18: train fits the estimator on scaled features exactly for the linear
\* model_type, and predict feeds the estimator the features scaled by the
\* instance's scaler if and only if the estimator was fitted on scaled features,
\* the raw features otherwise; predict returns one prediction per input row.
C18_SameTransformation ==
    [][clock' # clock =>
         /\ (call'.op = "train" /\ call'.ok) =>
               \E self \in {objs'[call'.self]} : \E frame \in {FrameOf(call'.data)} :
               \E rows \in {TrainingRows(self, frame)} : \E y \in {TrainingTarget(self, frame)} :
                   /\ self.model.fitted
                   /\ FittedOnScaled(self.model) <=> call'.model_type = "linear"
                   /\ \E fed \in {IF call'.model_type = "linear"
                                  THEN ScalerApply(self.scaler, rows) ELSE rows} :
                         self.model = EstimatorFit(NewEstimator(call'.model_type), fed,
                                                   self.model.names, y)
         /\ (call'.op = "predict" /\ call'.ok) =>
               \E self \in {objs'[call'.self]} : \E frame \in {FrameOf(call'.data)} :
               \E A \in {FeatureRows(self, frame)} :
                   /\ Len(call'.out) = Len(frame.rows)
                   /\ \E fed \in {IF FittedOnScaled(self.model)
                                  THEN ScalerApply(self.scaler, A) ELSE A} :
                         call'.out = EstimatorApply(self.model, fed)]_vars

C18_Witness ==
    /\ call.op = "predict"
    /\ call.ok
    /\ objs[call.self].model.kind = "LinearRegression"
    /\ objs[call.self].scaler.fitted
    /\ succeeded[call.self].train >= 1
    /\ Len(call.out) = 3

\* The model the server loaded, and the responses a request for body b at
\* endpoint e gets when no other request is in flight.
LoadedModel == load_or_train_model(disk).model

Alone(e, b) ==
    {o.resp : o \in IF e = "/predict" THEN PredictSingleOn(LoadedModel, b)
                    ELSE PredictBatchOn(LoadedModel, b)}

\* Two responses that differ in the time they were sent at most.
SameAnswer(r1, r2) == [r1 EXCEPT !.timestamp = 0] = [r2 EXCEPT !.timestamp = 0]

\* C19: prediction requests served in parallel against the shared loaded model
\* do not interfere: whatever the interleaving of their steps, every request
\* that has returned got the response it gets when it runs alone against the
\* loaded model, and none failed on a label encoder that another request had
\* created and not yet fitted.
C19_NoInterference ==
    \A t \in Threads :
        reqs[t].pc = "done" =>
            /\ \E alone \in Alone(reqs[t].endpoint, reqs[t].body) :
                  SameAnswer(reqs[t].resp, alone)
            /\ reqs[t].resp.error # "NotFittedError: LabelEncoder"

\* C20: a call of preprocess_data, train or predict that fails leaves the
\* instance as it was before the call: no label encoder added or fitted, the
\* feature column list, the scaler and the estimator unchanged.
C20_FailureLeavesInstance ==
    [][(clock' # clock /\ call'.op \in UsesEncoders /\ ~call'.ok) =>
          \E before \in {objs[call'.self]} : \E after \in {objs'[call'.self]} :
              /\ after.label_encoders = before.label_encoders
              /\ after.feature_columns = before.feature_columns
              /\ after.scaler = before.scaler
              /\ after.model = before.model]_vars

\* C21: a load_model call that fails leaves the instance exactly as it was
\* before the call; so a fresh instance on which no load_model has returned
\* normally holds no estimator, and its predict fails with the "model not
\* trained" error.
C21_FailedLoadLeavesInstance ==
    [][clock' # clock =>
          /\ (call'.op = "load_model" /\ ~call'.ok) =>
                 objs'[call'.self] = objs[call'.self]
          /\ (call'.op = "predict" /\ call'.self \in Restored /\ Untrained(call'.self)) =>
                 /\ objs[call'.self].model.kind = "None"
                 /\ ~call'.ok
                 /\ call'.err = NotTrainedError]_vars

====
